---- MODULE Spec2Model ----
(***************************************************************************)
(* Model of MixVerify::verifyPaths (src/nix/verify.cc): every store path   *)
(* is checked by one task of a thread pool (doPath); the tasks share the   *)
(* four atomic counters untrusted, corrupted, done and failed, and the     *)
(* exit status is computed from them once the pool has finished.           *)
(***************************************************************************)
EXTENDS Integers, Sequences, FiniteSets, TLC

\* ------------------------------------------------------------ bounds
NumPaths == 2        \* store paths of a run with several concurrent tasks
NumSubst == 3        \* configured substituters (-s) of a one-path run
NumSigs == 5         \* distinct signature strings that exist
MaxSigsNeeded == 2   \* largest --sigs-needed
MaxAnswers == 2      \* answers of a one-path run that differ from the default

\* ------------------------------------------------------------ data
\* Signature strings; std::set<std::string> iterates them in ascending order.
Sigs == 1..NumSigs

\* What the primary store holds for one store path and what each substituter
\* answers for it.  narHash is the recorded hash (info.narHash); nar is the
\* hash of the NAR that narFromPath streams, or "err" when it throws.
SubstAbsent == [st |-> "absent", sigs |-> {}]

PathData(infoErr, nar, ultimate, sigs, subs) ==
    [infoErr |-> infoErr, narHash |-> "h1", nar |-> nar,
     ultimate |-> ultimate, sigs |-> sigs, subs |-> subs]

\* The answers of one run that differ from the default (a readable, intact,
\* unsigned path that no substituter has), as <<kind, source, signature>>;
\* source 0 is the primary store, source i >= 1 the i-th substituter.
Answers(n) ==
    {<<"ultimate", 0, 0>>, <<"modified", 0, 0>>}
    \cup {<<"sig", src, s>> : src \in 0..n, s \in Sigs}
    \cup {<<k, i, 0>> : k \in {"validErr", "infoErr", "noSigs"}, i \in 1..n}

RECURSIVE UpTo(_, _)
UpTo(S, k) ==
    IF k = 0 THEN {{}}
    ELSE LET T == UpTo(S, k - 1) IN T \cup {t \cup {x} : t \in T, x \in S}

SigsOf(A, src) == {s \in Sigs : <<"sig", src, s>> \in A}

SubstOf(A, i) ==
    IF <<"validErr", i, 0>> \in A THEN [st |-> "validErr", sigs |-> {}]
    ELSE IF <<"infoErr", i, 0>> \in A THEN [st |-> "infoErr", sigs |-> {}]
    ELSE IF SigsOf(A, i) # {} \/ <<"noSigs", i, 0>> \in A
         THEN [st |-> "valid", sigs |-> SigsOf(A, i)]
    ELSE SubstAbsent

PathOf(A, n) ==
    PathData(FALSE, IF <<"modified", 0, 0>> \in A THEN "h2" ELSE "h1",
             <<"ultimate", 0, 0>> \in A, SigsOf(A, 0),
             [i \in 1..n |-> SubstOf(A, i)])

\* One path, any answers of the substituters.
OnePathInputs == {PathOf(A, NumSubst) : A \in UpTo(Answers(NumSubst), MaxAnswers)}

\* A path of a run with several paths and no substituter: readable or not,
\* intact or modified, ultimate or unsigned or carrying the one local signature
\* string 2.
ManyPathInputs ==
    {PathData(TRUE, "h1", FALSE, {}, <<>>), PathData(FALSE, "err", FALSE, {}, <<>>)}
    \cup {PathData(FALSE, nar, u, {}, <<>>) : nar \in {"h1", "h2"}, u \in BOOLEAN}
    \cup {PathData(FALSE, nar, FALSE, {2}, <<>>) : nar \in {"h1", "h2"}}

\* ------------------------------------------------------------ state
VARIABLES
    noContents,     \* --no-contents
    noTrust,        \* --no-trust
    sigsNeeded,     \* --sigs-needed
    storePaths,     \* the paths: storePaths[p] is what the stores hold for path p
    interrupted,    \* _isInterrupted, as checkInterrupt() reads it
    untrusted, corrupted, done, failed,   \* the atomic counters
    pc,             \* pc[p]: where the task of path p is
    good,           \* good[p]
    sigsSeen,       \* sigsSeen[p]
    validSigs,      \* validSigs[p]
    subst,          \* subst[p]: position of store2 in substituters
    calls,          \* calls[p]: the store and signature calls the task has made
    phase,          \* "running", "exited" (Exit thrown), "interrupted"
    exitStatus      \* the argument of Exit, -1 before

vars == <<noContents, noTrust, sigsNeeded, storePaths, interrupted,
          untrusted, corrupted, done, failed, pc, good, sigsSeen, validSigs,
          subst, calls, phase, exitStatus>>

config == <<noContents, noTrust, sigsNeeded, storePaths>>
counters == <<untrusted, corrupted, done, failed>>
locals == <<good, sigsSeen, validSigs, subst>>

Tasks == 1..Len(storePaths)
substituters == IF Len(storePaths) = 0 THEN 0 ELSE Len(storePaths[1].subs)

\* ------------------------------------------------------------ helpers
\* info.checkSignature(publicKeys, sig): "true", "false", or "throw" when the
\* signature string is malformed (an Error).  A property of the string alone:
\* the keys and the path's fingerprint are the same at every call of a task.
checkSignature(sig) ==
    CASE sig % 4 = 2 -> "throw"
      [] sig % 4 = 0 -> "false"
      [] OTHER -> "true"

\* the threshold taken as given, 0 included
SigsNeededAsGiven == sigsNeeded

\* size_t actualSigsNeeded = sigsNeeded ? sigsNeeded : 1
actualSigsNeeded == IF sigsNeeded # 0 THEN sigsNeeded ELSE 1

Min(S) == CHOOSE x \in S : \A y \in S : x <= y

\* The loop of doSigs over the signatures still to visit.  st is the task's
\* [seen, valid, calls, threw]; a checkSignature that throws ends the loop with
\* the signature already inserted in sigsSeen.
RECURSIVE doSigsLoop(_, _)
doSigsLoop(st, sigs) ==
    IF sigs = {} \/ st.threw THEN st
    ELSE LET sig == Min(sigs)
             r == checkSignature(sig)
         IN  IF sig \in st.seen THEN doSigsLoop(st, sigs \ {sig})
             ELSE doSigsLoop(
                    [seen |-> st.seen \cup {sig},
                     valid |-> IF r = "true" THEN st.valid + 1 ELSE st.valid,
                     calls |-> Append(st.calls, <<"checkSignature", sig>>),
                     threw |-> r = "throw"],
                    sigs \ {sig})

\* doSigs without the sigsSeen test of line 105
RECURSIVE doSigsNoDedup(_, _)
doSigsNoDedup(st, sigs) ==
    IF sigs = {} \/ st.threw THEN st
    ELSE LET sig == Min(sigs)
             r == checkSignature(sig)
         IN  doSigsNoDedup(
                [seen |-> st.seen \cup {sig},
                 valid |-> IF r = "true" THEN st.valid + 1 ELSE st.valid,
                 calls |-> Append(st.calls, <<"checkSignature", sig>>),
                 threw |-> r = "throw"],
                sigs \ {sig})

doSigs(st, sigs) == doSigsLoop(st, sigs)

SigState(p) ==
    [seen |-> sigsSeen[p], valid |-> validSigs[p], calls |-> calls[p],
     threw |-> FALSE]

\* a | b on the bits of two naturals
RECURSIVE BitOr(_, _)
BitOr(a, b) ==
    IF a = 0 THEN b
    ELSE IF b = 0 THEN a
    ELSE (IF a % 2 = 1 \/ b % 2 = 1 THEN 1 ELSE 0) + 2 * BitOr(a \div 2, b \div 2)

\* failed reported on the bit of untrusted
ExitCodeFailedAs2(c, u, f) ==
    BitOr(BitOr(IF c # 0 THEN 1 ELSE 0, IF u # 0 THEN 2 ELSE 0),
          IF f # 0 THEN 2 ELSE 0)

\* (corrupted ? 1 : 0) | (untrusted ? 2 : 0) | (failed ? 4 : 0)
ExitCode(c, u, f) ==
    BitOr(BitOr(IF c # 0 THEN 1 ELSE 0, IF u # 0 THEN 2 ELSE 0),
          IF f # 0 THEN 4 ELSE 0)

Final == {"done", "failed", "interrupted"}

\* the trust check entered whatever --no-trust says
AfterContentsAlwaysTrust == "trust"

\* where a task goes after the content check, and after the trust check
AfterContents == IF ~noTrust THEN "trust" ELSE "finish"
AfterInfo == IF ~noContents THEN "narFromPath" ELSE AfterContents

\* ------------------------------------------------------------ Init
InitTasks ==
    /\ interrupted = FALSE
    /\ untrusted = 0 /\ corrupted = 0 /\ done = 0 /\ failed = 0
    /\ pc = [p \in Tasks |-> "queued"]
    /\ good = [p \in Tasks |-> FALSE]
    /\ sigsSeen = [p \in Tasks |-> {}]
    /\ validSigs = [p \in Tasks |-> 0]
    /\ subst = [p \in Tasks |-> 1]
    /\ calls = [p \in Tasks |-> <<>>]
    /\ phase = "running"
    /\ exitStatus = -1

\* verify-paths on one path with NumSubst substituters.
InitOnePath ==
    /\ noContents = FALSE
    /\ noTrust = FALSE
    /\ sigsNeeded \in 0..MaxSigsNeeded
    /\ \E d \in OnePathInputs : storePaths = <<d>>

\* verify-paths, with or without --no-trust, on one unsigned path that every
\* substituter has, each with one signature string.
InitOneSigEach ==
    /\ noContents = FALSE
    /\ noTrust \in BOOLEAN
    /\ sigsNeeded \in 0..MaxSigsNeeded
    /\ \E f \in [1..NumSubst -> Sigs] :
         storePaths = <<PathData(FALSE, "h1", FALSE, {},
                                 [i \in 1..NumSubst |-> [st |-> "valid", sigs |-> {f[i]}]])>>

\* The tasks of a run are taken off the queue in any order, so the order of the
\* list given to verifyPaths is immaterial: Rank numbers the ManyPathInputs and
\* one list stands for all its permutations.
Rank(d) ==
    (IF d.infoErr THEN 24 ELSE 0)
    + (IF d.nar = "err" THEN 16 ELSE IF d.nar = "h2" THEN 8 ELSE 0)
    + (IF d.ultimate THEN 4 ELSE 0) + Cardinality(d.sigs)

\* verify-paths on NumPaths paths with no substituter and no --sigs-needed.
InitManyPaths ==
    /\ noContents \in BOOLEAN
    /\ noTrust \in BOOLEAN
    /\ sigsNeeded = 0
    /\ storePaths \in [1..NumPaths -> ManyPathInputs]
    /\ \A i \in 1..(NumPaths - 1) : Rank(storePaths[i]) <= Rank(storePaths[i + 1])

Init == (InitOnePath \/ InitOneSigEach \/ InitManyPaths) /\ InitTasks

\* ------------------------------------------------------------ doPath
\* checkInterrupt() raising an Error: the catch of line 139 takes it
StartInterruptCaught(p) ==
    /\ phase = "running" /\ pc[p] = "queued"
    /\ pc' = [pc EXCEPT ![p] = IF interrupted THEN "catch" ELSE "queryPathInfo"]
    /\ UNCHANGED <<config, interrupted, counters, locals, calls, phase, exitStatus>>

\* A worker takes the task off the queue; checkInterrupt() (line 68).
Start(p) ==
    /\ phase = "running" /\ pc[p] = "queued"
    /\ pc' = [pc EXCEPT ![p] = IF interrupted THEN "interrupted" ELSE "queryPathInfo"]
    /\ UNCHANGED <<config, interrupted, counters, locals, calls, phase, exitStatus>>

\* auto info = store->queryPathInfo(storePath) (line 72)
QueryPathInfo(p) ==
    /\ pc[p] = "queryPathInfo"
    /\ calls' = [calls EXCEPT ![p] = Append(@, <<"queryPathInfo", 0>>)]
    /\ pc' = [pc EXCEPT ![p] = IF storePaths[p].infoErr THEN "catch" ELSE AfterInfo]
    /\ UNCHANGED <<config, interrupted, counters, locals, phase, exitStatus>>

\* a read error of narFromPath taken for a modified path
CheckContentsErrorAsCorrupt(p) ==
    /\ pc[p] = "narFromPath"
    /\ calls' = [calls EXCEPT ![p] = Append(@, <<"narFromPath", 0>>)]
    /\ pc' = [pc EXCEPT ![p] = AfterContents]
    /\ corrupted' = IF storePaths[p].nar # storePaths[p].narHash THEN 1 ELSE corrupted
    /\ UNCHANGED <<config, interrupted, untrusted, done, failed, locals, phase, exitStatus>>

\* the comparison of line 81 inverted
CheckContentsInverted(p) ==
    /\ pc[p] = "narFromPath"
    /\ calls' = [calls EXCEPT ![p] = Append(@, <<"narFromPath", 0>>)]
    /\ pc' = [pc EXCEPT ![p] = IF storePaths[p].nar = "err" THEN "catch" ELSE AfterContents]
    /\ corrupted' = IF storePaths[p].nar = storePaths[p].narHash THEN 1 ELSE corrupted
    /\ UNCHANGED <<config, interrupted, untrusted, done, failed, locals, phase, exitStatus>>

\* corrupted assigned the result of the comparison: an intact path clears it
CheckContentsAssignsFlag(p) ==
    /\ pc[p] = "narFromPath"
    /\ calls' = [calls EXCEPT ![p] = Append(@, <<"narFromPath", 0>>)]
    /\ pc' = [pc EXCEPT ![p] = IF storePaths[p].nar = "err" THEN "catch" ELSE AfterContents]
    /\ corrupted' = IF storePaths[p].nar = "err" THEN corrupted
                    ELSE IF storePaths[p].nar # storePaths[p].narHash THEN 1 ELSE 0
    /\ UNCHANGED <<config, interrupted, untrusted, done, failed, locals, phase, exitStatus>>

\* a mismatch ending the task's checks: the trust check is skipped
CheckContentsSkipsTrust(p) ==
    /\ pc[p] = "narFromPath"
    /\ calls' = [calls EXCEPT ![p] = Append(@, <<"narFromPath", 0>>)]
    /\ pc' = [pc EXCEPT ![p] = IF storePaths[p].nar = "err" THEN "catch"
                               ELSE IF storePaths[p].nar # storePaths[p].narHash THEN "finish"
                               ELSE AfterContents]
    /\ corrupted' = IF storePaths[p].nar \notin {"err", storePaths[p].narHash}
                    THEN 1 ELSE corrupted
    /\ UNCHANGED <<config, interrupted, untrusted, done, failed, locals, phase, exitStatus>>

\* the content check (lines 74-88)
CheckContents(p) ==
    /\ pc[p] = "narFromPath"
    /\ calls' = [calls EXCEPT ![p] = Append(@, <<"narFromPath", 0>>)]
    /\ pc' = [pc EXCEPT ![p] = IF storePaths[p].nar = "err" THEN "catch" ELSE AfterContents]
    /\ corrupted' = IF storePaths[p].nar \notin {"err", storePaths[p].narHash}
                    THEN 1 ELSE corrupted
    /\ UNCHANGED <<config, interrupted, untrusted, done, failed, locals, phase, exitStatus>>

\* the shortcut without its else: the signatures are verified all the same
TrustLocalNoElse(p) ==
    /\ pc[p] = "trust"
    /\ LET st == doSigs(SigState(p), storePaths[p].sigs) IN
       /\ good' = [good EXCEPT ![p] = storePaths[p].ultimate /\ sigsNeeded = 0]
       /\ sigsSeen' = [sigsSeen EXCEPT ![p] = st.seen]
       /\ validSigs' = [validSigs EXCEPT ![p] = st.valid]
       /\ calls' = [calls EXCEPT ![p] = st.calls]
       /\ pc' = [pc EXCEPT ![p] = IF st.threw THEN "catch" ELSE "substituters"]
    /\ UNCHANGED <<config, interrupted, counters, subst, phase, exitStatus>>

\* the start of the trust check: the ultimate shortcut, or doSigs(info.sigs)
\* (lines 92-112)
TrustLocal(p) ==
    /\ pc[p] = "trust"
    /\ IF storePaths[p].ultimate /\ sigsNeeded = 0
       THEN /\ good' = [good EXCEPT ![p] = TRUE]
            /\ pc' = [pc EXCEPT ![p] = "decided"]
            /\ UNCHANGED <<sigsSeen, validSigs, calls>>
       ELSE LET st == doSigs(SigState(p), storePaths[p].sigs) IN
            /\ sigsSeen' = [sigsSeen EXCEPT ![p] = st.seen]
            /\ validSigs' = [validSigs EXCEPT ![p] = st.valid]
            /\ calls' = [calls EXCEPT ![p] = st.calls]
            /\ pc' = [pc EXCEPT ![p] = IF st.threw THEN "catch" ELSE "substituters"]
            /\ UNCHANGED good
    /\ UNCHANGED <<config, interrupted, counters, subst, phase, exitStatus>>

\* the loop without the break of line 115
SubstituterNoBreak(p) ==
    /\ pc[p] = "substituters"
    /\ IF subst[p] > substituters
       THEN /\ good' = [good EXCEPT ![p] = @ \/ validSigs[p] >= actualSigsNeeded]
            /\ pc' = [pc EXCEPT ![p] = "decided"]
            /\ UNCHANGED <<subst, calls>>
       ELSE LET a == storePaths[p].subs[subst[p]] IN
            /\ calls' = [calls EXCEPT ![p] = Append(@, <<"isValidPath", subst[p]>>)]
            /\ pc' = [pc EXCEPT ![p] = IF a.st \in {"validErr", "absent"}
                                       THEN "substituters" ELSE "substituterInfo"]
            /\ subst' = [subst EXCEPT ![p] = IF a.st \in {"validErr", "absent"}
                                             THEN @ + 1 ELSE @]
            /\ UNCHANGED good
    /\ UNCHANGED <<config, interrupted, counters, sigsSeen, validSigs, phase, exitStatus>>

\* the loop without the isValidPath test of line 116: the metadata of every
\* substituter is fetched
SubstituterNoSkip(p) ==
    /\ pc[p] = "substituters"
    /\ IF subst[p] > substituters \/ validSigs[p] >= actualSigsNeeded
       THEN /\ good' = [good EXCEPT ![p] = @ \/ validSigs[p] >= actualSigsNeeded]
            /\ pc' = [pc EXCEPT ![p] = "decided"]
            /\ UNCHANGED <<subst, calls>>
       ELSE LET a == storePaths[p].subs[subst[p]] IN
            /\ calls' = [calls EXCEPT ![p] = Append(@, <<"isValidPath", subst[p]>>)]
            /\ pc' = [pc EXCEPT ![p] = IF a.st = "validErr"
                                       THEN "substituters" ELSE "substituterInfo"]
            /\ subst' = [subst EXCEPT ![p] = IF a.st = "validErr" THEN @ + 1 ELSE @]
            /\ UNCHANGED good
    /\ UNCHANGED <<config, interrupted, counters, sigsSeen, validSigs, phase, exitStatus>>

\* the head of the loop over the substituters and store2->isValidPath
\* (lines 114-117), then lines 124-125 when the loop ends
Substituter(p) ==
    /\ pc[p] = "substituters"
    /\ IF subst[p] > substituters \/ validSigs[p] >= actualSigsNeeded
       THEN /\ good' = [good EXCEPT ![p] = @ \/ validSigs[p] >= actualSigsNeeded]
            /\ pc' = [pc EXCEPT ![p] = "decided"]
            /\ UNCHANGED <<subst, calls>>
       ELSE LET a == storePaths[p].subs[subst[p]] IN
            /\ calls' = [calls EXCEPT ![p] = Append(@, <<"isValidPath", subst[p]>>)]
            /\ pc' = [pc EXCEPT ![p] = IF a.st \in {"validErr", "absent"}
                                       THEN "substituters" ELSE "substituterInfo"]
            /\ subst' = [subst EXCEPT ![p] = IF a.st \in {"validErr", "absent"}
                                             THEN @ + 1 ELSE @]
            /\ UNCHANGED good
    /\ UNCHANGED <<config, interrupted, counters, sigsSeen, validSigs, phase, exitStatus>>

\* the loop without its try: an Error of queryPathInfo reaches the catch of doPath
SubstituterInfoUncaught(p) ==
    /\ pc[p] = "substituterInfo"
    /\ LET a == storePaths[p].subs[subst[p]]
           q == [SigState(p) EXCEPT !.calls = Append(@, <<"queryPathInfo", subst[p]>>)]
           st == IF a.st = "infoErr" THEN q ELSE doSigs(q, a.sigs)
       IN  /\ sigsSeen' = [sigsSeen EXCEPT ![p] = st.seen]
           /\ validSigs' = [validSigs EXCEPT ![p] = st.valid]
           /\ calls' = [calls EXCEPT ![p] = st.calls]
           /\ pc' = [pc EXCEPT ![p] = IF a.st = "infoErr" \/ st.threw
                                      THEN "catch" ELSE "substituters"]
    /\ subst' = [subst EXCEPT ![p] = @ + 1]
    /\ UNCHANGED <<config, interrupted, counters, good, phase, exitStatus>>

\* doSigs(store2->queryPathInfo(storePath).sigs) and the catch of the loop
\* (lines 118-121)
SubstituterInfo(p) ==
    /\ pc[p] = "substituterInfo"
    /\ LET a == storePaths[p].subs[subst[p]]
           q == [SigState(p) EXCEPT !.calls = Append(@, <<"queryPathInfo", subst[p]>>)]
           st == IF a.st = "infoErr" THEN q ELSE doSigs(q, a.sigs)
       IN  /\ sigsSeen' = [sigsSeen EXCEPT ![p] = st.seen]
           /\ validSigs' = [validSigs EXCEPT ![p] = st.valid]
           /\ calls' = [calls EXCEPT ![p] = st.calls]
    /\ subst' = [subst EXCEPT ![p] = @ + 1]
    /\ pc' = [pc EXCEPT ![p] = "substituters"]
    /\ UNCHANGED <<config, interrupted, counters, good, phase, exitStatus>>

\* untrusted = 1 in place of untrusted++
UntrustedSetToOne(p) ==
    /\ pc[p] = "decided"
    /\ untrusted' = IF ~good[p] THEN 1 ELSE untrusted
    /\ pc' = [pc EXCEPT ![p] = "finish"]
    /\ UNCHANGED <<config, interrupted, corrupted, done, failed, locals, calls, phase, exitStatus>>

\* if (!good) untrusted++ (lines 128-131)
Untrusted(p) ==
    /\ pc[p] = "decided"
    /\ untrusted' = IF ~good[p] THEN untrusted + 1 ELSE untrusted
    /\ pc' = [pc EXCEPT ![p] = "finish"]
    /\ UNCHANGED <<config, interrupted, corrupted, done, failed, locals, calls, phase, exitStatus>>

\* done++ moved into the block of if (!noTrust)
DoneInsideTrust(p) ==
    /\ pc[p] = "finish"
    /\ done' = IF ~noTrust THEN done + 1 ELSE done
    /\ pc' = [pc EXCEPT ![p] = "done"]
    /\ UNCHANGED <<config, interrupted, untrusted, corrupted, failed, locals, calls, phase, exitStatus>>

\* done++ as a plain read and write: the update of a task is lost when
\* another task is at its own done++
DoneLostUpdate(p) ==
    /\ pc[p] = "finish"
    /\ done' = IF \E q \in Tasks \ {p} : pc[q] = "finish" THEN done ELSE done + 1
    /\ pc' = [pc EXCEPT ![p] = "done"]
    /\ UNCHANGED <<config, interrupted, untrusted, corrupted, failed, locals, calls, phase, exitStatus>>

\* done++ (line 135)
Done(p) ==
    /\ pc[p] = "finish"
    /\ done' = done + 1
    /\ pc' = [pc EXCEPT ![p] = "done"]
    /\ UNCHANGED <<config, interrupted, untrusted, corrupted, failed, locals, calls, phase, exitStatus>>

\* catch (Error & e) { ...; failed++; } (lines 139-142)
CatchError(p) ==
    /\ pc[p] = "catch"
    /\ failed' = failed + 1
    /\ pc' = [pc EXCEPT ![p] = "failed"]
    /\ UNCHANGED <<config, interrupted, untrusted, corrupted, done, locals, calls, phase, exitStatus>>

\* ------------------------------------------------------------ verifyPaths
\* throw Exit(...) without pool.process(): tasks are still running
ExitNoWait ==
    /\ phase = "running"
    /\ \E p \in Tasks : pc[p] \in {"done", "failed"}
    /\ \A p \in Tasks : pc[p] # "interrupted"
    /\ exitStatus' = ExitCode(corrupted, untrusted, failed)
    /\ phase' = "exited"
    /\ UNCHANGED <<config, interrupted, counters, pc, locals, calls>>

\* pool.process() has returned: throw Exit(...) (lines 148-157)
Exit ==
    /\ phase = "running"
    /\ \A p \in Tasks : pc[p] \in {"done", "failed"}
    /\ exitStatus' = ExitCode(corrupted, untrusted, failed)
    /\ phase' = "exited"
    /\ UNCHANGED <<config, interrupted, counters, pc, locals, calls>>

\* pool.process() rethrows the Interrupted of a task: no Exit is thrown
Rethrow ==
    /\ phase = "running"
    /\ \A p \in Tasks : pc[p] \in Final
    /\ \E p \in Tasks : pc[p] = "interrupted"
    /\ phase' = "interrupted"
    /\ UNCHANGED <<config, interrupted, counters, pc, locals, calls, exitStatus>>

\* the user interrupts the run (the signal handler sets _isInterrupted) while
\* a task is still to start: checkInterrupt() of line 68 is the only reader
Interrupt ==
    /\ phase = "running" /\ ~interrupted
    /\ \E p \in Tasks : pc[p] = "queued"
    /\ interrupted' = TRUE
    /\ UNCHANGED <<config, counters, pc, locals, calls, phase, exitStatus>>

Next ==
    \/ \E p \in Tasks : Start(p)
    \/ \E p \in Tasks : QueryPathInfo(p)
    \/ \E p \in Tasks : CheckContents(p)
    \/ \E p \in Tasks : TrustLocal(p)
    \/ \E p \in Tasks : Substituter(p)
    \/ \E p \in Tasks : SubstituterInfo(p)
    \/ \E p \in Tasks : Untrusted(p)
    \/ \E p \in Tasks : Done(p)
    \/ \E p \in Tasks : CatchError(p)
    \/ Exit
    \/ Rethrow
    \/ Interrupt

Spec == Init /\ [][Next]_vars

\* The pool runs every task it was given and process() returns when they have
\* finished (lines 145-148): some enabled step is eventually taken.
FairSpec == Spec /\ WF_vars(Next)

\* ------------------------------------------------------------ properties
Info(p) == storePaths[p]

\* the recomputed hash of path p differs from the recorded one
Modified(p) == ~Info(p).infoErr /\ Info(p).nar \notin {"err", Info(p).narHash}

\* the primary store raises an Error in the task of path p
PrimaryError(p) == Info(p).infoErr \/ (~noContents /\ Info(p).nar = "err")

\* the trust check of path p has come to its decision
Decided(p) == ~noTrust /\ pc[p] \in {"decided", "finish", "done"}

\* max(threshold, 1)
Required == IF sigsNeeded > 1 THEN sigsNeeded ELSE 1

\* C1: when the exit status is produced, done + failed is the number of
\* submitted paths.
C1_DonePlusFailed ==
    phase = "exited" => done + failed = Len(storePaths)

C1_Witness == phase = "exited" /\ done >= 1 /\ failed >= 1

\* C2: the exit status is the mask with bit 0 set iff corrupted > 0, bit 1 set
\* iff untrusted > 0 and bit 2 set iff failed > 0; it is 0 iff all three are 0.
C2_ExitStatus ==
    phase = "exited" =>
        /\ exitStatus \in 0..7
        /\ (exitStatus % 2 = 1) <=> (corrupted > 0)
        /\ ((exitStatus \div 2) % 2 = 1) <=> (untrusted > 0)
        /\ ((exitStatus \div 4) % 2 = 1) <=> (failed > 0)
        /\ (exitStatus = 0) <=> (corrupted = 0 /\ untrusted = 0 /\ failed = 0)

C2_Witness ==
    phase = "exited" /\ exitStatus = 7 /\ corrupted > 0 /\ untrusted > 0 /\ failed > 0

\* C3: at the end of a run with content checking enabled, corrupted is the
\* number of paths whose recomputed hash differs from the recorded hash.
C3_CorruptedCount ==
    (phase = "exited" /\ ~noContents) =>
        corrupted = Cardinality({p \in Tasks : Modified(p)})

\* C4: at the end of a run with trust checking enabled, untrusted is the
\* number of paths whose trust decision was negative.
C4_UntrustedCount ==
    (phase = "exited" /\ ~noTrust) =>
        untrusted = Cardinality({p \in Tasks : Decided(p) /\ ~good[p]})

C4_Witness ==
    /\ phase = "exited" /\ ~noTrust /\ untrusted = 2
    /\ Cardinality({p \in Tasks : Decided(p) /\ ~good[p]}) = 2

\* the signature strings that verify among S
Verifying(S) == {s \in S : checkSignature(s) = "true"}

\* the signatures of path p at the substituters that have it and answer
ValidSubst(p) == {i \in 1..substituters : Info(p).subs[i].st = "valid"}
Supplied(p) == Info(p).sigs \cup UNION {Info(p).subs[i].sigs : i \in ValidSubst(p)}

\* the signatures of sigs that doSigs reaches when those of seen have been
\* seen: all up to the first new one whose verification raises an Error
Reached(sigs, seen) ==
    {s \in sigs : \A t \in sigs : (t < s /\ t \notin seen) => checkSignature(t) # "throw"}

RECURSIVE SeenFrom(_, _, _)
SeenFrom(p, i, seen) ==
    IF i > substituters THEN seen
    ELSE SeenFrom(p, i + 1,
                  IF i \in ValidSubst(p)
                  THEN seen \cup Reached(Info(p).subs[i].sigs, seen) ELSE seen)

Counted(p) == Verifying(SeenFrom(p, 1, Info(p).sigs))

\* C5 as claimed: a path is trusted iff it is ultimate with threshold 0, or
\* the distinct verifying signatures of the local metadata and of every
\* substituter that has the path and answers number at least max(threshold, 1).
C5_TrustedIffSupplied ==
    \A p \in Tasks : Decided(p) =>
        (good[p] <=> \/ Info(p).ultimate /\ sigsNeeded = 0
                     \/ Cardinality(Verifying(Supplied(p))) >= Required)

\* C5 as amended: the signatures of a substituter count up to the first new
\* one whose verification raises an Error; the rest of its set is skipped.
C5_TrustedIffCounted ==
    \A p \in Tasks : Decided(p) =>
        (good[p] <=> \/ Info(p).ultimate /\ sigsNeeded = 0
                     \/ Cardinality(Counted(p)) >= Required)

C5_Witness ==
    \E p \in Tasks :
        /\ pc[p] = "done" /\ ~good[p] /\ ~Info(p).ultimate
        /\ Cardinality(Verifying(Supplied(p))) >= Required
        /\ Cardinality(Counted(p)) < Required

\* the calls of task p to a substituter or to checkSignature
TrustCalls(p) ==
    {k \in DOMAIN calls[p] :
        \/ calls[p][k][1] \in {"checkSignature", "isValidPath"}
        \/ calls[p][k][1] = "queryPathInfo" /\ calls[p][k][2] >= 1}

\* C6: a path with ultimate = true and threshold 0 is trusted, and its task
\* calls neither checkSignature nor a substituter.
C6_UltimateShortcut ==
    \A p \in Tasks : (Info(p).ultimate /\ sigsNeeded = 0) =>
        /\ TrustCalls(p) = {}
        /\ Decided(p) => good[p]

C6_Witness ==
    \E p \in Tasks :
        /\ Info(p).ultimate /\ sigsNeeded = 0 /\ ~noTrust /\ pc[p] = "done"
        /\ Supplied(p) # {} /\ substituters > 0

\* C7: a signature string is verified at most once in a task, and validSigs
\* is the number of distinct verified strings that verify, so never more than
\* the number of distinct strings seen.
C7_CountedOnce ==
    \A p \in Tasks :
        /\ \A k, l \in DOMAIN calls[p] :
              (calls[p][k][1] = "checkSignature" /\ calls[p][k] = calls[p][l]) => k = l
        /\ validSigs[p] = Cardinality(Verifying(
              {s \in Sigs : \E k \in DOMAIN calls[p] : calls[p][k] = <<"checkSignature", s>>}))
        /\ validSigs[p] <= Cardinality(sigsSeen[p])

C7_Witness ==
    \E p \in Tasks : \E i \in ValidSubst(p) : \E s \in Info(p).sigs :
        /\ s \in Info(p).subs[i].sigs /\ checkSignature(s) = "true"
        /\ \E k \in DOMAIN calls[p] : calls[p][k] = <<"queryPathInfo", i>>
        /\ pc[p] = "done" /\ validSigs[p] = 1

\* the calls of task p to a substituter
SubstCalls(p) ==
    {k \in DOMAIN calls[p] :
        \/ calls[p][k][1] = "isValidPath"
        \/ calls[p][k][1] = "queryPathInfo" /\ calls[p][k][2] >= 1}

\* the substituters task p has queried
Queried(p) == {calls[p][k][2] : k \in SubstCalls(p)}

\* the successful verifications of task p before its k-th call
ValidBefore(p, k) ==
    Cardinality({j \in 1..(k - 1) :
        calls[p][j][1] = "checkSignature" /\ checkSignature(calls[p][j][2]) = "true"})

\* threshold 2, no local signature, and the first three substituters hold
\* one verifying signature each, all distinct
ThreeSigners(p) ==
    /\ ~noTrust /\ sigsNeeded = 2 /\ Info(p).sigs = {} /\ substituters >= 3
    /\ \A i \in 1..3 : /\ Info(p).subs[i].st = "valid"
                       /\ Cardinality(Info(p).subs[i].sigs) = 1
                       /\ Verifying(Info(p).subs[i].sigs) # {}
    /\ Cardinality(UNION {Info(p).subs[i].sigs : i \in 1..3}) = 3

\* C8: the substituters are queried in configured order, and none is queried
\* once max(threshold, 1) signatures have verified; of three signers with
\* threshold 2 exactly the first two are queried and the path is trusted.
C8_ShortCircuit ==
    \A p \in Tasks :
        /\ \A k \in SubstCalls(p) : ValidBefore(p, k) < Required
        /\ \A k, l \in SubstCalls(p) : k < l => calls[p][k][2] <= calls[p][l][2]
        /\ (ThreeSigners(p) /\ Decided(p)) => (good[p] /\ Queried(p) = {1, 2})

C8_Witness ==
    \E p \in Tasks : ThreeSigners(p) /\ pc[p] = "done" /\ good[p] /\ Queried(p) = {1, 2}

\* the query that task p is about to make raises an Error
SubstQueryRaises(p) ==
    \/ /\ pc[p] = "substituters" /\ subst[p] <= substituters
       /\ validSigs[p] < Required
       /\ Info(p).subs[subst[p]].st = "validErr"
    \/ /\ pc[p] = "substituterInfo"
       /\ Info(p).subs[subst[p]].st = "infoErr"

\* a local signature of path p is verified and raises an Error
LocalSigRaises(p) ==
    /\ ~noTrust /\ ~(Info(p).ultimate /\ sigsNeeded = 0)
    /\ \E s \in Info(p).sigs : checkSignature(s) = "throw"

\* C9: the step of a task whose substituter query raises changes neither
\* failed nor untrusted, keeps the signatures counted so far and goes on with
\* the next substituter; no task fails because of a substituter, and a path
\* that ended untrusted has fewer valid signatures than required.
C9_SubstErrorStep ==
    \A p \in Tasks : (SubstQueryRaises(p) /\ <<pc[p], subst[p]>>' # <<pc[p], subst[p]>>) =>
        /\ failed' = failed /\ untrusted' = untrusted /\ done' = done
        /\ validSigs'[p] = validSigs[p] /\ sigsSeen'[p] = sigsSeen[p]
        /\ subst'[p] = subst[p] + 1 /\ pc'[p] = "substituters"

C9_NoFailure ==
    \A p \in Tasks :
        /\ pc[p] \in {"catch", "failed"} => (PrimaryError(p) \/ LocalSigRaises(p))
        /\ (Decided(p) /\ ~good[p]) => validSigs[p] < Required

C9_SubstErrorSkipped == [][C9_SubstErrorStep]_vars /\ []C9_NoFailure

C9_Witness ==
    \E p \in Tasks : \E i \in 1..substituters :
        /\ Info(p).subs[i].st \in {"validErr", "infoErr"}
        /\ i \in Queried(p) /\ \E j \in Queried(p) : j > i
        /\ pc[p] = "done" /\ good[p] /\ failed = 0 /\ untrusted = 0

\* C10: a task in which the primary store raises ends failed, counted once in
\* failed and not in done; every other task ends done or failed on its own
\* account, so one unreadable path among n readable ones gives failed = 1 and
\* done = n.
C10_PrimaryErrorIsolated ==
    /\ failed = Cardinality({p \in Tasks : pc[p] = "failed"})
    /\ done = Cardinality({p \in Tasks : pc[p] = "done"})
    /\ \A p \in Tasks : (PrimaryError(p) /\ pc[p] \in Final) => pc[p] \in {"failed", "interrupted"}
    /\ phase = "exited" =>
          /\ \A p \in Tasks : pc[p] = "failed" <=> (PrimaryError(p) \/ LocalSigRaises(p))
          /\ \A p \in Tasks : pc[p] = "done" <=> ~(PrimaryError(p) \/ LocalSigRaises(p))
          /\ (Cardinality({p \in Tasks : PrimaryError(p)}) = 1
                /\ \A p \in Tasks : ~LocalSigRaises(p))
             => (failed = 1 /\ done = Len(storePaths) - 1)

C10_Witness ==
    /\ phase = "exited" /\ failed = 1 /\ done >= 1
    /\ Cardinality({p \in Tasks : PrimaryError(p)}) = 1
    /\ \E p \in Tasks : Info(p).nar = "err" /\ pc[p] = "failed"

\* task p has streamed the NAR of its path
Streamed(p) == \E k \in DOMAIN calls[p] : calls[p][k] = <<"narFromPath", 0>>

\* C11: corrupted and untrusted are changed only by paths that reach done: at
\* the end of a run corrupted > 0 implies that a completed path was modified,
\* and untrusted counts completed paths only.
C11_OnlyCompletedPaths ==
    phase = "exited" =>
        /\ corrupted > 0 => \E p \in Tasks : pc[p] = "done" /\ Modified(p)
        /\ untrusted = Cardinality({p \in Tasks : pc[p] = "done" /\ ~noTrust /\ ~good[p]})

\* C12: corrupted changes only through a path whose recomputed hash differs
\* from the recorded one: it is 1 when such a path has been streamed and 0
\* otherwise, so it stays 0, and bit 0 of the exit status clear, when every
\* hash matches or content checking is disabled.
C12_IntactNeverCorrupted ==
    /\ corrupted = IF \E p \in Tasks : Modified(p) /\ Streamed(p) THEN 1 ELSE 0
    /\ (noContents \/ \A p \in Tasks : ~Modified(p)) =>
          /\ corrupted = 0
          /\ phase = "exited" => exitStatus % 2 = 0

C12_Witness ==
    /\ phase = "exited" /\ ~noContents /\ untrusted > 0 /\ corrupted = 0
    /\ \E p \in Tasks : Streamed(p) /\ ~Modified(p) /\ pc[p] = "done" /\ ~good[p]

\* what the input alone says of path p: no Error reaches the catch of its
\* task, and its signatures meet the threshold
Completes(p) == ~PrimaryError(p) /\ ~LocalSigRaises(p)
TrustedByInput(p) ==
    \/ Info(p).ultimate /\ sigsNeeded = 0
    \/ Cardinality(Counted(p)) >= Required

FinalDone == Cardinality({p \in Tasks : Completes(p)})
FinalFailed == Cardinality({p \in Tasks : ~Completes(p)})
FinalUntrusted ==
    IF noTrust THEN 0
    ELSE Cardinality({p \in Tasks : Completes(p) /\ ~TrustedByInput(p)})
FinalCorrupted == IF ~noContents /\ \E p \in Tasks : Modified(p) THEN 1 ELSE 0
FinalStatus ==
    (IF FinalCorrupted > 0 THEN 1 ELSE 0) + (IF FinalUntrusted > 0 THEN 2 ELSE 0)
    + (IF FinalFailed > 0 THEN 4 ELSE 0)

\* C13: without cancellation the final done, corrupted, untrusted, failed and
\* the exit status are a function of the input (paths, store answers,
\* configuration): the same under every interleaving of the tasks.
C13_FinalValuesOfInput ==
    phase = "exited" =>
        /\ done = FinalDone /\ failed = FinalFailed
        /\ untrusted = FinalUntrusted /\ corrupted = FinalCorrupted
        /\ exitStatus = FinalStatus

C13_Witness ==
    /\ phase = "exited" /\ Len(storePaths) >= 2
    /\ done >= 2 /\ untrusted >= 2 /\ corrupted = 1

\* C14: a task that sees the interrupt at its start makes no store or
\* substituter call and changes no counter; the interrupt is no failed path
\* (every failed path has an Error raised by one of its calls), it ends the
\* run without an exit status, and the counters hold the paths that finished.
C14_InterruptAbandons ==
    /\ \A p \in Tasks : pc[p] = "interrupted" =>
          calls[p] = <<>> /\ sigsSeen[p] = {} /\ validSigs[p] = 0 /\ ~good[p]
    /\ \A p \in Tasks : pc[p] \in {"catch", "failed"} => calls[p] # <<>>
    /\ done = Cardinality({p \in Tasks : pc[p] = "done"})
    /\ failed = Cardinality({p \in Tasks : pc[p] = "failed"})
    /\ untrusted = Cardinality({p \in Tasks : ~noTrust /\ pc[p] \in {"finish", "done"} /\ ~good[p]})
    /\ corrupted > 0 => \E p \in Tasks : Streamed(p) /\ Modified(p)
    /\ (\E p \in Tasks : pc[p] = "interrupted") => phase # "exited" /\ exitStatus = -1
    /\ phase = "interrupted" => \E p \in Tasks : pc[p] = "interrupted"

C14_Witness ==
    /\ phase = "interrupted" /\ done = 1 /\ untrusted = 1 /\ failed = 0
    /\ \E p \in Tasks : pc[p] = "interrupted" /\ Info(p).infoErr

\* C15: a run that is not interrupted eventually has its exit status; the
\* status is computed when every task has finished, and no counter changes
\* once it has been computed.
C15_NoStepAfterExit == phase = "exited" => counters' = counters /\ pc' = pc
C15_ExitsAfterAllTasks ==
    /\ ([]~interrupted) => <>(phase = "exited")
    /\ [](phase = "exited" => \A p \in Tasks : pc[p] \in {"done", "failed"})
    /\ [](phase = "exited" => exitStatus = ExitCode(corrupted, untrusted, failed))
    /\ [][C15_NoStepAfterExit]_vars

C15_Witness ==
    /\ phase = "exited" /\ Len(storePaths) >= 2
    /\ done = 1 /\ failed = 1 /\ exitStatus >= 4

\* path p is modified and untrusted by its input, both checks are enabled and
\* no Error ends its task
ModifiedUntrusted(p) ==
    /\ ~noContents /\ ~noTrust
    /\ Modified(p) /\ Completes(p) /\ ~TrustedByInput(p)

\* C16: a hash mismatch does not stop the trust check of the same path: a
\* completed path that is modified and untrusted has set corrupted, has had its
\* local signatures looked at, and is counted in untrusted and done; a run on
\* that one path exits with status 3.
C16_MismatchThenTrust ==
    /\ \A p \in Tasks : ModifiedUntrusted(p) /\ pc[p] = "done" =>
          /\ corrupted = 1 /\ ~good[p]
          /\ \A s \in Info(p).sigs :
                \E k \in TrustCalls(p) : calls[p][k] = <<"checkSignature", s>>
          /\ untrusted >= 1 /\ done >= 1
    /\ untrusted >= Cardinality({p \in Tasks : ModifiedUntrusted(p) /\ pc[p] = "done"})
    /\ (phase = "exited" /\ Len(storePaths) = 1 /\ ModifiedUntrusted(1)) =>
          /\ corrupted = 1 /\ untrusted = 1 /\ done = 1 /\ failed = 0
          /\ exitStatus = 3

C16_Witness ==
    /\ phase = "exited" /\ Len(storePaths) = 1 /\ ModifiedUntrusted(1)
    /\ exitStatus = 3 /\ Info(1).sigs # {}

\* C17: a task fetches the metadata of substituter i only right after
\* isValidPath of that substituter, and only when it answered true; a
\* substituter that has not the path gets no queryPathInfo, adds nothing to
\* the signatures of the task, and the next substituter is asked next.
C17_FetchOnlyIfValid ==
    \A p \in Tasks :
        /\ \A k \in DOMAIN calls[p] :
              LET c == calls[p][k] IN
              /\ (c[1] = "queryPathInfo" /\ c[2] >= 1) =>
                    /\ k > 1 /\ calls[p][k - 1] = <<"isValidPath", c[2]>>
                    /\ Info(p).subs[c[2]].st \in {"valid", "infoErr"}
              /\ (c[1] = "isValidPath" /\ Info(p).subs[c[2]].st = "absent") =>
                    /\ k < Len(calls[p]) => calls[p][k + 1] = <<"isValidPath", c[2] + 1>>
                    /\ (c[2] < substituters /\ Decided(p)) => k < Len(calls[p])
        /\ sigsSeen[p] \subseteq
              Info(p).sigs \cup UNION {Info(p).subs[i].sigs : i \in ValidSubst(p) \cap Queried(p)}

C17_Witness ==
    \E p \in Tasks :
        /\ pc[p] = "done" /\ good[p]
        /\ \E k \in DOMAIN calls[p] :
              /\ k + 2 <= Len(calls[p])
              /\ calls[p][k][1] = "isValidPath" /\ Info(p).subs[calls[p][k][2]].st = "absent"
              /\ calls[p][k + 2] = <<"queryPathInfo", calls[p][k][2] + 1>>

\* C18: no step of a run lowers done, corrupted, untrusted or failed, and
\* done + failed is at most the number of tasks that have started.
C18_NoDecrease ==
    /\ done' >= done /\ failed' >= failed
    /\ untrusted' >= untrusted /\ corrupted' >= corrupted
C18_CountersMonotonic ==
    /\ [][C18_NoDecrease]_vars
    /\ [](done + failed <= Cardinality({p \in Tasks : pc[p] # "queued"}))
    /\ [](done >= 0 /\ failed >= 0 /\ untrusted >= 0 /\ corrupted >= 0)

C18_Witness ==
    /\ done = 1 /\ corrupted = 1 /\ untrusted = 1
    /\ \E p \in Tasks : pc[p] \in {"finish", "trust"} /\ Streamed(p) /\ ~Modified(p)

\* C19: with --no-trust no task verifies a signature or queries a substituter
\* and untrusted stays 0; with --no-contents no task streams a NAR and
\* corrupted stays 0; in both cases the first call of every task that has got
\* past line 72 is queryPathInfo of the primary store, made once.
C19_DisabledChecksUntouched ==
    /\ noTrust =>
          /\ untrusted = 0
          /\ \A p \in Tasks : TrustCalls(p) = {} /\ sigsSeen[p] = {} /\ validSigs[p] = 0 /\ ~good[p]
    /\ noContents =>
          /\ corrupted = 0
          /\ \A p \in Tasks : ~Streamed(p)
    /\ \A p \in Tasks : pc[p] \notin {"queued", "queryPathInfo", "interrupted"} =>
          /\ calls[p] # <<>> /\ calls[p][1] = <<"queryPathInfo", 0>>
          /\ \A k \in DOMAIN calls[p] : calls[p][k] = <<"queryPathInfo", 0>> => k = 1
    /\ (noTrust /\ noContents) =>
          \A p \in Tasks : Len(calls[p]) <= 1

C19_Witness ==
    /\ phase = "exited" /\ noTrust /\ noContents
    /\ untrusted = 0 /\ corrupted = 0 /\ done >= 1
    /\ \E p \in Tasks :
          /\ pc[p] = "done" /\ Info(p).nar = "h2" /\ Info(p).sigs # {}
          /\ calls[p] = <<<<"queryPathInfo", 0>>>>

====
